---- MODULE Spec2Model ----
(***************************************************************************)
(* Model of src/main.py: the YouTube content extractor (captions first,    *)
(* audio transcription as fallback), the caption cleaner and the           *)
(* conversation manager kept in the Streamlit session state.               *)
(*                                                                         *)
(* Texts are sequences of symbols.  A symbol is one character, except      *)
(* that a few fixed multi-character literals that no regular expression    *)
(* of the program can split are one symbol each: the "WEBVTT" header word, *)
(* one timestamp dd:dd:dd.ddd, the persona text, the seed prefix, the      *)
(* preset questions and the fallback answer.                               *)
(***************************************************************************)
EXTENDS Integers, Sequences, FiniteSets, TLC

\* ------------------------------------------------------------------------
\* Symbols
NL    == "\n"
SP    == " "
Hdr   == "WEBVTT"
Ts    == "00:00:00.000"
Note  == "note"
LBr   == "["
RBr   == "]"
Lt    == "<"
Gt    == ">"
Dash  == "-"

\* Python's None, and the marker of an exception that left a function.
None   == <<"None">>
Raised == <<"Exception">>

\* Python truthiness of an optional text: None and "" are falsy.
Truthy(t) == t # None /\ t # <<>>

\* the characters \s matches
Whitespace == {SP, NL}

IsSpace(c) == c \in Whitespace

\* "dd:dd:dd.ddd --> dd:dd:dd.ddd"
CueRange == <<Ts, SP, Dash, Dash, Gt, SP, Ts>>

MinOf(S) == CHOOSE x \in S : \A y \in S : x <= y

\* ------------------------------------------------------------------------
\* clean_subtitle_text: the seven substitutions, each as re.sub does it:
\* scan left to right, at each position take the match the pattern gives
\* there (MatchEnd is its last index, 0 when there is none), replace it and
\* continue after it.

\* r'^WEBVTT.*?\n\n' with MULTILINE | DOTALL
HeaderEnd(s, i) ==
    IF (i = 1 \/ s[i-1] = NL) /\ s[i] = Hdr
    THEN LET J == {j \in (i+1)..(Len(s)-1) : s[j] = NL /\ s[j+1] = NL}
         IN  IF J = {} THEN 0 ELSE MinOf(J) + 1
    ELSE 0

\* r'\d{2}:\d{2}:\d{2}\.\d{3} --> \d{2}:\d{2}:\d{2}\.\d{3}.*?\n'
CueEnd(s, i) ==
    IF i + 6 <= Len(s) /\ SubSeq(s, i, i+6) = CueRange
    THEN LET J == {j \in (i+7)..Len(s) : s[j] = NL}
         IN  IF J = {} THEN 0 ELSE MinOf(J)
    ELSE 0

\* r'<[^>]+>'
TagEnd(s, i) ==
    IF s[i] = Lt
    THEN LET J == {j \in (i+1)..Len(s) : s[j] = Gt}
         IN  IF J = {} \/ MinOf(J) = i + 1 THEN 0 ELSE MinOf(J)
    ELSE 0

\* r'\[.*?\]' and r'♪.*?♪': '.' does not match a newline
PairEnd(s, i, open, close) ==
    IF s[i] = open
    THEN LET J == {j \in (i+1)..Len(s) : s[j] = close}
         IN  IF J = {} THEN 0
             ELSE IF \E k \in (i+1)..(MinOf(J)-1) : s[k] = NL THEN 0
             ELSE MinOf(J)
    ELSE 0

\* r'\n+' and r'\s+': the maximal run starting at i
RunEnd(s, i, class) ==
    IF s[i] \in class
    THEN LET J == {j \in i..Len(s) : \A k \in i..j : s[k] \in class}
         IN  CHOOSE x \in J : \A y \in J : y <= x
    ELSE 0

MatchEnd(pat, s, i) ==
    CASE pat = "header"   -> HeaderEnd(s, i)
      [] pat = "cue"      -> CueEnd(s, i)
      [] pat = "tag"      -> TagEnd(s, i)
      [] pat = "bracket"  -> PairEnd(s, i, LBr, RBr)
      [] pat = "note"     -> PairEnd(s, i, Note, Note)
      [] pat = "newlines" -> RunEnd(s, i, {NL})
      [] pat = "spaces"   -> RunEnd(s, i, Whitespace)

Replacement(pat) == IF pat \in {"newlines", "spaces"} THEN <<SP>> ELSE <<>>

RECURSIVE re_sub_from(_, _, _)
re_sub_from(pat, s, i) ==
    IF i > Len(s) THEN <<>>
    ELSE LET e == MatchEnd(pat, s, i)
         IN  IF e # 0
             THEN Replacement(pat) \o re_sub_from(pat, s, e + 1)
             ELSE <<s[i]>> \o re_sub_from(pat, s, i + 1)

re_sub(pat, s) == re_sub_from(pat, s, 1)

\* str.strip()
RECURSIVE lstrip(_)
lstrip(s) == IF s # <<>> /\ IsSpace(Head(s)) THEN lstrip(Tail(s)) ELSE s

RECURSIVE rstrip(_)
rstrip(s) ==
    IF s # <<>> /\ IsSpace(s[Len(s)]) THEN rstrip(SubSeq(s, 1, Len(s)-1)) ELSE s

strip(s) == rstrip(lstrip(s))

clean_subtitle_text(vtt_content) ==
    LET c1 == re_sub("header", vtt_content)
        c2 == re_sub("cue", c1)
        c3 == re_sub("tag", c2)
        c4 == re_sub("bracket", c3)
        c5 == re_sub("note", c4)
        c6 == re_sub("newlines", c5)
        c7 == re_sub("spaces", c6)
    IN  strip(c7)

\* ------------------------------------------------------------------------
\* Bounds of the model
MaxHistory == 2       \* no question is asked once chat_history is this long
MaxPieces  == 3       \* pieces of a caption file given to the cleaner alone

\* ------------------------------------------------------------------------
\* Fixed texts of the program
Persona     == <<"You are a YouTube video content assistant.">>
SeedPrefix  == <<"Here is the YouTube content I want you to analyze and remember for our conversation: ">>
Fallback    == <<"Sorry, I encountered an error processing your question.">>
QuickQuestions ==
    << <<"Provide a comprehensive summary of this video content">>,
       <<"Suggest 5 better, engaging titles for this video content">>,
       <<"What are the main topics and key points covered in this video?">> >>

\* ------------------------------------------------------------------------
\* What the user and the collaborators can supply
Urls == {"", "https://youtu.be/v"}

\* caption files yt-dlp may write: header, one cue and a line of text with
\* markup and a stage direction; a file whose only cue is a stage direction
CaptionFiles ==
    { <<Hdr, NL, NL>> \o CueRange \o <<NL, Lt, "c", Gt, "a", SP, LBr, "M", RBr, SP, "b", NL, NL>>,
      <<Hdr, NL, NL>> \o CueRange \o <<NL, LBr, "M", RBr, NL, NL>> }

\* texts whisper may return
Transcripts == { <<SP, "e", SP, "f", NL>>, <<SP, NL>> }

\* replies of the non-streaming chat call
Replies == { <<"ack">> }

\* chunk sequences the streaming chat call may yield: two chunks of text and
\* the empty chunk that ends a stream, or that last chunk alone
Streams == { << <<"x">>, <<"y">>, <<>> >>, << <<>> >> }

Chunks == UNION {{st[i] : i \in 1..Len(st)} : st \in Streams}

IsPrefix(p, q) == Len(p) <= Len(q) /\ SubSeq(q, 1, Len(p)) = p

TypedQuestions == { <<"q">>, <<>> }

CaptionOutcomes ==
    {[kind |-> "raise", text |-> <<>>], [kind |-> "nofile", text |-> <<>>]}
    \cup {[kind |-> "file", text |-> f] : f \in CaptionFiles}

AudioOutcomes == {"raise", "nofile", "file"}

WhisperOutcomes ==
    {[kind |-> "raise", text |-> <<>>]}
    \cup {[kind |-> "text", text |-> t] : t \in Transcripts}

ChatOutcomes ==
    {[kind |-> "raise", text |-> <<>>]}
    \cup {[kind |-> "reply", text |-> r] : r \in Replies}

\* ------------------------------------------------------------------------
VARIABLES
    messages,         \* st.session_state.messages         (Transcript)
    youtube_content,  \* st.session_state.youtube_content  (ExtractedContent)
    content_loaded,   \* st.session_state.content_loaded   (ready flag)
    chat_history,     \* st.session_state.chat_history     (QAHistory)
    pc,               \* "idle", or the collaborator call the script waits in
    subtitle_text,    \* extract_youtube_content: result of get_subtitles
    audio_text,       \* extract_youtube_content: result of transcribe_audio
    extracted,        \* value extract_youtube_content returned to the handler
    question,         \* get_ai_response_streaming: user_question
    full_response,    \* get_ai_response_streaming: full_response
    stream,           \* chunks the streaming chat call has yielded so far
    temp_dirs,        \* temporary directories that exist on disk
    sent,             \* message list handed to the chat call in flight
    tokens,           \* texts written to response_container by this ask
    calls,            \* collaborator calls made by the running user action
    caption_out,      \* what the caption fetch of this extraction did
    audio_out,        \* what the audio path of this extraction did
    outcome,          \* how the last completed user action ended
    asks              \* asks completed since the session was last reset

session == <<messages, youtube_content, content_loaded, chat_history>>
locals  == <<subtitle_text, audio_text, extracted, question, full_response, stream>>
observed == <<temp_dirs, sent, tokens, calls, caption_out, audio_out, outcome, asks>>
vars == <<session, pc, locals, observed>>

Msg(role, content) == [role |-> role, content |-> content]

NoOutcome == [kind |-> "none", text |-> <<>>]

NoCalls == [caption |-> 0, audio |-> 0, whisper |-> 0, chat |-> 0]

\* lines 17-25
Init ==
    /\ messages = <<>>
    /\ youtube_content = None
    /\ content_loaded = FALSE
    /\ chat_history = <<>>
    /\ pc = "idle"
    /\ subtitle_text = None
    /\ audio_text = None
    /\ extracted = None
    /\ question = <<>>
    /\ full_response = <<>>
    /\ stream = <<>>
    /\ temp_dirs = {}
    /\ sent = <<>>
    /\ tokens = <<>>
    /\ calls = NoCalls
    /\ caption_out = NoOutcome
    /\ audio_out = NoOutcome
    /\ outcome = "none"
    /\ asks = <<>>

\* ------------------------------------------------------------------------
\* Content Extractor

\* get_subtitles returning the caption file as read, uncleaned
get_subtitles_raw(out) ==
    CASE out.kind = "raise"  -> None
      [] out.kind = "nofile" -> None
      [] out.kind = "file"   -> out.text

\* get_subtitles: what it returns for what yt-dlp did
get_subtitles(out) ==
    CASE out.kind = "raise"  -> None
      [] out.kind = "nofile" -> None
      [] out.kind = "file"   -> clean_subtitle_text(out.text)

\* transcribe_audio without its except clause: the exception leaves it
transcribe_audio_uncaught(out) ==
    CASE out.kind = "raise" -> Raised
      [] out.kind = "text"  -> strip(out.text)

\* transcribe_audio: what it returns for what whisper did
transcribe_audio(out) ==
    CASE out.kind = "raise" -> None
      [] out.kind = "text"  -> strip(out.text)

\* a with block that leaves its directory behind
cleanup_leak(dirs, d) == dirs

\* leaving `with tempfile.TemporaryDirectory()`, by return or by exception,
\* deletes the directory
cleanup(dirs, d) == dirs \ {d}

\* "Analyze Video" pressed: without a URL only a warning is shown; with one
\* the script enters extract_youtube_content, get_subtitles and the caption
\* fetch of yt-dlp
AnalyzeVideo(video_url) ==
    /\ pc = "idle"
    /\ IF video_url = ""
       THEN UNCHANGED <<pc, temp_dirs, calls, outcome>>
       ELSE /\ pc' = "ydl_subtitles"
            /\ temp_dirs' = temp_dirs \cup {"subtitle_dir"}
            /\ calls' = [NoCalls EXCEPT !.caption = 1]
            /\ UNCHANGED outcome
    /\ UNCHANGED <<session, locals, sent, tokens, caption_out, audio_out, asks>>

\* the caption fetch ends; get_subtitles returns; extract_youtube_content
\* either returns the subtitles or enters transcribe_audio and its download
SubtitleFetch(out) ==
    /\ pc = "ydl_subtitles"
    /\ caption_out' = out
    /\ subtitle_text' = get_subtitles(out)
    /\ IF Truthy(subtitle_text')
       THEN /\ extracted' = subtitle_text'
            /\ pc' = "extracted"
            /\ temp_dirs' = cleanup(temp_dirs, "subtitle_dir")
            /\ UNCHANGED calls
       ELSE /\ pc' = "ydl_audio"
            /\ temp_dirs' = cleanup(temp_dirs, "subtitle_dir") \cup {"audio_dir"}
            /\ calls' = [calls EXCEPT !.audio = @ + 1]
            /\ UNCHANGED extracted
    /\ UNCHANGED <<session, audio_text, question, full_response, stream, sent, tokens,
                   audio_out, outcome, asks>>

\* transcribe_audio that starts the download again when it raised
AudioDownload_retry(out) ==
    /\ pc = "ydl_audio"
    /\ IF out = "file"
       THEN /\ pc' = "whisper"
            /\ calls' = [calls EXCEPT !.whisper = @ + 1]
            /\ UNCHANGED <<temp_dirs, audio_out, audio_text, extracted>>
       ELSE IF out = "raise"
       THEN /\ calls' = [calls EXCEPT !.audio = @ + 1]
            /\ UNCHANGED <<pc, temp_dirs, audio_out, audio_text, extracted>>
       ELSE /\ pc' = "extracted"
            /\ audio_out' = [kind |-> out, text |-> <<>>]
            /\ audio_text' = None
            /\ extracted' = None
            /\ temp_dirs' = cleanup(temp_dirs, "audio_dir")
            /\ UNCHANGED calls
    /\ UNCHANGED <<session, subtitle_text, question, full_response, stream, sent, tokens,
                   caption_out, outcome, asks>>

\* the audio download ends: without a file transcribe_audio returns None
\* and so does extract_youtube_content; with one the script enters whisper
AudioDownload(out) ==
    /\ pc = "ydl_audio"
    /\ IF out = "file"
       THEN /\ pc' = "whisper"
            /\ calls' = [calls EXCEPT !.whisper = @ + 1]
            /\ UNCHANGED <<temp_dirs, audio_out, audio_text, extracted>>
       ELSE /\ pc' = "extracted"
            /\ audio_out' = [kind |-> out, text |-> <<>>]
            /\ audio_text' = None
            /\ extracted' = None
            /\ temp_dirs' = cleanup(temp_dirs, "audio_dir")
            /\ UNCHANGED calls
    /\ UNCHANGED <<session, subtitle_text, question, full_response, stream, sent, tokens,
                   caption_out, outcome, asks>>

\* whisper ends; transcribe_audio and extract_youtube_content return
Transcribe(out) ==
    /\ pc = "whisper"
    /\ audio_out' = out
    /\ audio_text' = transcribe_audio(out)
    /\ extracted' = IF Truthy(audio_text') THEN audio_text' ELSE None
    /\ temp_dirs' = cleanup(temp_dirs, "audio_dir")
    /\ pc' = "extracted"
    /\ UNCHANGED <<session, subtitle_text, question, full_response, stream, sent, tokens,
                   calls, caption_out, outcome, asks>>

\* ------------------------------------------------------------------------
\* Conversation Manager

SystemMsg == Msg("system", Persona)
ContentMsg(content) == Msg("user", SeedPrefix \o content)

\* initialize_with_content without its first statement: the old transcript stays
initialize_seed_keep(old_messages, content) ==
    Append(Append(old_messages, SystemMsg), ContentMsg(content))

\* initialize_with_content up to the chat call: the transcript is emptied,
\* then the persona and the content message are appended
initialize_seed(old_messages, content) ==
    Append(Append(<<>>, SystemMsg), ContentMsg(content))

\* the reply of a chat call is appended as an assistant message
with_reply(msgs, response) == Append(msgs, Msg("assistant", response))

\* the question is put in front of the transcript instead of at its end
with_question_first(msgs, user_question) == <<Msg("user", user_question)>> \o msgs

\* get_ai_response_streaming appends the question as a user message
with_question(msgs, user_question) == Append(msgs, Msg("user", user_question))

\* the handler without its last statement: the in-flight entry stays
store_answer_skipped(history, q, response) == history

\* the handler replaces the last (in-flight) entry of chat_history
store_answer(history, q, response) ==
    [history EXCEPT ![Len(history)] = <<q, response>>]

\* the handler storing the extraction's result before testing it
AnalyzeContinue_store_first ==
    /\ pc = "extracted"
    /\ youtube_content' = extracted
    /\ IF Truthy(extracted)
       THEN /\ messages' = initialize_seed(messages, extracted)
            /\ sent' = messages'
            /\ calls' = [calls EXCEPT !.chat = @ + 1]
            /\ pc' = "chat_init"
            /\ UNCHANGED outcome
       ELSE /\ outcome' = "extract_failed"
            /\ calls' = NoCalls
            /\ pc' = "idle"
            /\ UNCHANGED <<messages, sent>>
    /\ subtitle_text' = None
    /\ audio_text' = None
    /\ extracted' = None
    /\ caption_out' = NoOutcome
    /\ audio_out' = NoOutcome
    /\ UNCHANGED <<content_loaded, chat_history, question, full_response, stream,
                   temp_dirs, tokens, asks>>

\* the handler has the extraction's result: without content it reports the
\* failure; with content it stores it and initialize_with_content resets
\* the transcript and issues the priming chat call
AnalyzeContinue ==
    /\ pc = "extracted"
    /\ IF Truthy(extracted)
       THEN /\ youtube_content' = extracted
            /\ messages' = initialize_seed(messages, extracted)
            /\ sent' = messages'
            /\ calls' = [calls EXCEPT !.chat = @ + 1]
            /\ pc' = "chat_init"
            /\ UNCHANGED outcome
       ELSE /\ outcome' = "extract_failed"
            /\ calls' = NoCalls
            /\ pc' = "idle"
            /\ UNCHANGED <<youtube_content, messages, sent>>
    /\ subtitle_text' = None
    /\ audio_text' = None
    /\ extracted' = None
    /\ caption_out' = NoOutcome
    /\ audio_out' = NoOutcome
    /\ UNCHANGED <<content_loaded, chat_history, question, full_response, stream,
                   temp_dirs, tokens, asks>>

\* the priming chat call ends; initialize_with_content returns to the handler
ChatInit(out) ==
    /\ pc = "chat_init"
    /\ IF out.kind = "reply"
       THEN /\ messages' = with_reply(messages, out.text)
            /\ content_loaded' = TRUE
            /\ chat_history' = <<>>
            /\ asks' = <<>>
            /\ outcome' = "analyzed"
       ELSE /\ outcome' = "init_failed"
            /\ UNCHANGED <<messages, content_loaded, chat_history, asks>>
    /\ sent' = <<>>
    /\ calls' = NoCalls
    /\ pc' = "idle"
    /\ UNCHANGED <<youtube_content, locals, temp_dirs, tokens, caption_out, audio_out>>

\* "Clear Analysis" that forgets the transcript
ClearAnalysis_keep_messages ==
    /\ pc = "idle"
    /\ content_loaded
    /\ content_loaded' = FALSE
    /\ youtube_content' = None
    /\ chat_history' = <<>>
    /\ asks' = <<>>
    /\ outcome' = "cleared"
    /\ UNCHANGED <<messages, pc, locals, temp_dirs, sent, tokens, calls,
                   caption_out, audio_out>>

\* "Clear Analysis" that forgets chat_history
ClearAnalysis_keep_history ==
    /\ pc = "idle"
    /\ content_loaded
    /\ content_loaded' = FALSE
    /\ youtube_content' = None
    /\ messages' = <<>>
    /\ asks' = <<>>
    /\ outcome' = "cleared"
    /\ UNCHANGED <<chat_history, pc, locals, temp_dirs, sent, tokens, calls,
                   caption_out, audio_out>>

\* "Clear Analysis", shown while content_loaded
ClearAnalysis ==
    /\ pc = "idle"
    /\ content_loaded
    /\ content_loaded' = FALSE
    /\ youtube_content' = None
    /\ messages' = <<>>
    /\ chat_history' = <<>>
    /\ asks' = <<>>
    /\ outcome' = "cleared"
    /\ UNCHANGED <<pc, locals, temp_dirs, sent, tokens, calls, caption_out, audio_out>>

\* the main area guarded by the content alone
MainAreaShown_content_only == Truthy(youtube_content)

\* the main area is rendered
MainAreaShown == content_loaded /\ Truthy(youtube_content)

\* a question enters chat_history with an empty answer and
\* get_ai_response_streaming runs up to the streaming chat call
StartAsk(q) ==
    /\ chat_history' = Append(chat_history, <<q, <<>> >>)
    /\ question' = q
    /\ messages' = with_question(messages, q)
    /\ sent' = messages'
    /\ full_response' = <<>>
    /\ stream' = <<>>
    /\ tokens' = <<>>
    /\ calls' = [NoCalls EXCEPT !.chat = 1]
    /\ pc' = "chat_stream"
    /\ UNCHANGED <<youtube_content, content_loaded, subtitle_text, audio_text,
                   extracted, temp_dirs, caption_out, audio_out, outcome, asks>>

CanAsk ==
    /\ pc = "idle"
    /\ MainAreaShown
    /\ Len(chat_history) < MaxHistory

\* the question form is submitted
Ask(user_question) ==
    /\ CanAsk
    /\ IF user_question # <<>> THEN StartAsk(user_question) ELSE UNCHANGED vars

\* one of the three quick question buttons is pressed
QuickQuestion(k) ==
    /\ CanAsk
    /\ StartAsk(QuickQuestions[k])

\* the chunk replaces the text so far instead of being added to it
accumulate_delta(so_far, content) == content

\* full_response += content
accumulate(so_far, content) == so_far \o content

\* the stream yields a chunk: it is added to full_response, and the
\* cumulative text is written to response_container
StreamChunk(content) ==
    /\ pc = "chat_stream"
    /\ \E st \in Streams : IsPrefix(Append(stream, content), st)
    /\ stream' = Append(stream, content)
    /\ full_response' = accumulate(full_response, content)
    /\ tokens' = Append(tokens, full_response')
    /\ UNCHANGED <<session, pc, subtitle_text, audio_text, extracted, question,
                   temp_dirs, sent, calls, caption_out, audio_out, outcome, asks>>

\* get_ai_response_streaming returns response; the handler stores it
FinishAsk(response, ok) ==
    /\ chat_history' = store_answer(chat_history, question, response)
    /\ asks' = Append(asks, [question |-> question, response |-> response, ok |-> ok])
    /\ outcome' = IF ok THEN "answered" ELSE "ask_failed"
    /\ question' = <<>>
    /\ full_response' = <<>>
    /\ stream' = <<>>
    /\ tokens' = <<>>
    /\ sent' = <<>>
    /\ calls' = NoCalls
    /\ pc' = "idle"
    /\ UNCHANGED <<youtube_content, content_loaded, subtitle_text, audio_text,
                   extracted, temp_dirs, caption_out, audio_out>>

\* the stream is exhausted: the full response is appended to the transcript
StreamEnd ==
    /\ pc = "chat_stream"
    /\ stream \in Streams
    /\ messages' = with_reply(messages, full_response)
    /\ FinishAsk(full_response, TRUE)

\* the except clause also appends the fallback as an assistant message
StreamFail_appends ==
    /\ pc = "chat_stream"
    /\ messages' = with_reply(messages, Fallback)
    /\ FinishAsk(Fallback, FALSE)

\* the chat call raises, before or in the middle of the stream
StreamFail ==
    /\ pc = "chat_stream"
    /\ UNCHANGED messages
    /\ FinishAsk(Fallback, FALSE)

Next ==
    \/ \E u \in Urls : AnalyzeVideo(u)
    \/ \E out \in CaptionOutcomes : SubtitleFetch(out)
    \/ \E out \in AudioOutcomes : AudioDownload(out)
    \/ \E out \in WhisperOutcomes : Transcribe(out)
    \/ AnalyzeContinue
    \/ \E out \in ChatOutcomes : ChatInit(out)
    \/ ClearAnalysis
    \/ \E q \in TypedQuestions : Ask(q)
    \/ \E k \in 1..3 : QuickQuestion(k)
    \/ \E c \in Chunks : StreamChunk(c)
    \/ StreamEnd
    \/ StreamFail

Spec == Init /\ [][Next]_vars

TypeOK ==
    /\ pc \in {"idle", "ydl_subtitles", "ydl_audio", "whisper", "extracted",
               "chat_init", "chat_stream"}
    /\ content_loaded \in BOOLEAN
    /\ \A i \in 1..Len(messages) : messages[i].role \in {"system", "user", "assistant"}
    /\ Len(messages) <= 3 + 2 * MaxHistory
    /\ Len(chat_history) <= MaxHistory

\* ------------------------------------------------------------------------
\* The two states of the session
IsEmpty ==
    /\ ~content_loaded
    /\ youtube_content = None
    /\ messages = <<>>
    /\ chat_history = <<>>

IsReady ==
    /\ content_loaded
    /\ Truthy(youtube_content)
    /\ Len(messages) >= 3
    /\ messages[1] = SystemMsg
    /\ messages[2] = ContentMsg(youtube_content)
    /\ messages[3].role = "assistant"

\* C1: with no chat call in flight a non-empty transcript starts with the
\* system message, then the user message carrying the extracted content, and
\* from there on alternates: every user message is followed by exactly one
\* assistant message before the next user message.
C1_TranscriptAlternates ==
    (pc = "idle" /\ messages # <<>>) =>
        /\ Len(messages) >= 3
        /\ messages[1].role = "system"
        /\ messages[2] = ContentMsg(youtube_content)
        /\ \A i \in 2..Len(messages) :
              messages[i].role = IF i % 2 = 0 THEN "user" ELSE "assistant"
        /\ Len(messages) % 2 = 1

\* C2: once a prime whose chat call failed has returned, the session is not
\* ready, whatever it was before.
C2_FailedPrimeNotReady ==
    (pc = "idle" /\ outcome = "init_failed") => ~content_loaded

\* C3: after a failed user action the session is EMPTY or READY, never a mix.
C3_FailureLeavesEmptyOrReady ==
    (pc = "idle" /\ outcome \in {"extract_failed", "init_failed", "ask_failed"})
        => (IsEmpty \/ IsReady)

\* C4: a successful prime, from any prior state, leaves the transcript equal
\* to exactly [persona, content message, reply of the one chat call made
\* over the two seed messages] and marks the session ready.
C4_PrimeSuccess ==
    [][(pc = "chat_init" /\ outcome' = "analyzed") =>
          /\ sent = <<SystemMsg, ContentMsg(youtube_content)>>
          /\ calls.chat = 1
          /\ \E r \in Replies :
                messages' = <<SystemMsg, ContentMsg(youtube_content), Msg("assistant", r)>>
          /\ content_loaded'
          /\ youtube_content' = youtube_content]_vars

\* a prime has just succeeded
C4_Witness ==
    /\ pc = "idle"
    /\ outcome = "analyzed"
    /\ Len(messages) = 3
    /\ content_loaded

\* C5: every message list ask hands to the chat call starts with the persona
\* message and the message embedding the content of the current video, and
\* ends with the new question.
C5_AskSendsSeededTranscript ==
    pc = "chat_stream" =>
        /\ Len(sent) >= 3
        /\ sent[1] = SystemMsg
        /\ sent[2] = ContentMsg(youtube_content)
        /\ sent[Len(sent)] = Msg("user", question)

\* an ask is in flight right after an earlier ask of this video failed
C5_Witness ==
    /\ pc = "chat_stream"
    /\ Len(sent) = 5
    /\ sent[4].role = "user"
    /\ \E i \in 1..Len(asks) : ~asks[i].ok

AllOk == \A i \in 1..Len(asks) : asks[i].ok

\* C6 as claimed: after K successful asks since the last reset chat_history
\* has exactly K entries, in the order asked, each pairing a non-empty
\* question with the non-empty answer returned for it.
C6_NonEmptyAnswers ==
    (pc = "idle" /\ AllOk) =>
        /\ Len(chat_history) = Len(asks)
        /\ \A i \in 1..Len(asks) :
              /\ chat_history[i][1] = asks[i].question
              /\ chat_history[i][1] # <<>>
              /\ chat_history[i][2] = asks[i].response
              /\ chat_history[i][2] # <<>>

\* C6 as amended: after K successful asks since the last reset chat_history
\* has exactly K entries, in the order asked, each pairing a non-empty
\* question with the text ask returned for it (the streamed text, which is
\* empty when the model streamed none).
C6_HistoryRecordsAnswers ==
    (pc = "idle" /\ AllOk) =>
        /\ Len(chat_history) = Len(asks)
        /\ \A i \in 1..Len(asks) :
              /\ chat_history[i][1] = asks[i].question
              /\ chat_history[i][1] # <<>>
              /\ chat_history[i][2] = asks[i].response

\* two different questions have been answered, the first with streamed text
C6_Witness ==
    /\ pc = "idle"
    /\ AllOk
    /\ Len(asks) = 2
    /\ asks[1].question # asks[2].question
    /\ asks[1].response # <<>>
    /\ Len(chat_history) = 2

\* the session an Analyze with a successful prime leaves when it starts
\* from the session of Init
FreshAnalyzed(content, reply) ==
    <<with_reply(initialize_seed(<<>>, content), reply), content, TRUE, <<>> >>

\* C7: Clear on a READY session leaves it EMPTY, and the Analyze with a
\* successful prime that follows leaves the session that the same Analyze
\* leaves on a fresh session.
C7_ClearThenAnalyze ==
    [][/\ (IsReady /\ ClearAnalysis) => IsEmpty'
       /\ (outcome = "cleared" /\ pc = "chat_init" /\ outcome' = "analyzed") =>
             \E r \in Replies : session' = FreshAnalyzed(youtube_content, r)]_vars

\* after a Clear, an Analyze has reached its priming call
C7_Witness == outcome = "cleared" /\ pc = "chat_init" /\ ~content_loaded

\* C8: every action that resets the transcript (a prime, successful or not,
\* and Clear) leaves chat_history empty when it completes.
C8_ResetEmptiesHistory ==
    (pc = "idle" /\ outcome \in {"analyzed", "init_failed", "cleared"})
        => chat_history = <<>>

\* extract_youtube_content is running or has just returned to the handler
InExtraction == pc \in {"ydl_subtitles", "ydl_audio", "whisper", "extracted"}

AudioInvoked == calls.audio > 0 \/ calls.whisper > 0

\* C9 as claimed: whenever the caption step returns a caption file,
\* extraction returns its cleaned text and never invokes the audio download
\* or whisper; the audio path is entered only when there was no caption
\* file or the caption step raised.
C9_CaptionFileStopsPipeline ==
    /\ caption_out.kind = "file" =>
          /\ ~AudioInvoked
          /\ pc = "extracted" => extracted = clean_subtitle_text(caption_out.text)
    /\ (InExtraction /\ AudioInvoked) => caption_out.kind \in {"nofile", "raise"}

\* C9 as amended: whenever the caption step returns a caption file whose
\* cleaned text is not empty, extraction returns that text and never
\* invokes the audio download or whisper; the audio path is entered only
\* when there was no caption file, the caption step raised, or the file
\* cleaned to the empty text.
C9_CaptionTextStopsPipeline ==
    /\ (caption_out.kind = "file" /\ clean_subtitle_text(caption_out.text) # <<>>) =>
          /\ ~AudioInvoked
          /\ pc = "extracted" => extracted = clean_subtitle_text(caption_out.text)
    /\ (InExtraction /\ AudioInvoked) =>
          \/ caption_out.kind \in {"nofile", "raise"}
          \/ caption_out.kind = "file" /\ clean_subtitle_text(caption_out.text) = <<>>

\* extraction has returned the cleaned text of a caption file
C9_Witness ==
    /\ pc = "extracted"
    /\ caption_out.kind = "file"
    /\ Truthy(extracted)
    /\ extracted # caption_out.text

\* C10: an exception in the caption step leads on to the audio step; an
\* exception or an empty result in the audio step makes extraction return
\* None; extraction returns None, the whole cleaned caption text or the
\* whole stripped transcript, never an exception and never part of a text.
C10_ExtractionAllOrNothing ==
    /\ caption_out.kind = "raise" => calls.audio = 1
    /\ pc = "extracted" =>
          /\ audio_out.kind \in {"raise", "nofile"} => extracted = None
          /\ (audio_out.kind = "text" /\ strip(audio_out.text) = <<>>) => extracted = None
          /\ extracted # Raised
          /\ \/ extracted = None
             \/ /\ caption_out.kind = "file"
                /\ audio_out.kind = "none"
                /\ extracted = clean_subtitle_text(caption_out.text)
                /\ extracted # <<>>
             \/ /\ audio_out.kind = "text"
                /\ extracted = strip(audio_out.text)
                /\ extracted # <<>>

\* the caption step raised, whisper raised, and extraction returned None
C10_Witness ==
    /\ pc = "extracted"
    /\ caption_out.kind = "raise"
    /\ audio_out.kind = "raise"
    /\ calls.whisper = 1
    /\ extracted = None

\* the concatenation of a sequence of chunks
RECURSIVE Concat(_)
Concat(cs) == IF cs = <<>> THEN <<>> ELSE Head(cs) \o Concat(Tail(cs))

\* response_container has been written once per chunk, the i-th time with
\* the concatenation of the first i chunks
TokensCumulative ==
    /\ Len(tokens) = Len(stream)
    /\ \A i \in 1..Len(stream) : tokens[i] = Concat(SubSeq(stream, 1, i))

\* C11: while an ask streams chunks c1..cn, onToken has been invoked once
\* per chunk, the i-th time with c1..ci; when the stream ends, exactly one
\* assistant message with text c1..cn is appended to the transcript and
\* that text is what ask returns.
C11_CumulativeTokens ==
    [][/\ pc' = "chat_stream" => TokensCumulative'
       /\ (pc = "chat_stream" /\ pc' = "idle" /\ asks'[Len(asks')].ok) =>
             /\ stream \in Streams
             /\ messages' = Append(messages, Msg("assistant", Concat(stream)))
             /\ asks'[Len(asks')].response = Concat(stream)]_vars

\* an ask whose stream carried two chunks of text has completed
C11_Witness ==
    /\ pc = "idle"
    /\ outcome = "answered"
    /\ messages[Len(messages)] = Msg("assistant", <<"x", "y">>)
    /\ asks[Len(asks)].response = <<"x", "y">>

\* C12: when the chat call of an ask fails, at its start or in the middle of
\* the stream, ask returns the fallback text, the transcript is the one from
\* before the call plus the user question, with no assistant message added,
\* and chat_history records the fallback as the answer.
C12_FailedAsk ==
    [][/\ (pc = "idle" /\ pc' = "chat_stream") =>
             /\ messages' = Append(messages, Msg("user", question'))
             /\ sent' = messages'
       /\ (pc = "chat_stream" /\ pc' = "idle" /\ ~asks'[Len(asks')].ok) =>
             /\ messages' = sent
             /\ messages'[Len(messages')] = Msg("user", question)
             /\ asks'[Len(asks')].response = Fallback
             /\ chat_history'[Len(chat_history')] = <<question, Fallback>>]_vars

\* an ask has failed: the transcript ends with its question, chat_history
\* with the fallback
C12_Witness ==
    /\ pc = "idle"
    /\ outcome = "ask_failed"
    /\ messages[Len(messages)].role = "user"
    /\ chat_history[Len(chat_history)] = <<messages[Len(messages)].content, Fallback>>

QuestionPositions == {j \in 3..Len(messages) : messages[j].role = "user"}

\* C14: with no ask in flight, the question of the i-th chat_history entry
\* is the text of the i-th user message after the seed message of the
\* transcript, and its answer the text of the assistant message that
\* immediately follows that user message.
C14_HistoryDerivedFromTranscript ==
    pc = "idle" =>
        \A i \in 1..Len(chat_history) :
            \E j \in QuestionPositions :
                /\ Cardinality({k \in QuestionPositions : k <= j}) = i
                /\ messages[j].content = chat_history[i][1]
                /\ j < Len(messages)
                /\ messages[j+1] = Msg("assistant", chat_history[i][2])

Collaborators == {"caption", "audio", "whisper", "chat"}

\* C15: no failure is retried.  Within one user action every collaborator
\* call is made at most once, and an ask makes exactly one chat call; a
\* call is started only by a new user action or as the next step of the
\* pipeline (audio download once the caption step gave nothing, whisper
\* once the download gave a file, priming once extraction gave content),
\* never after the failure of the audio path or of a chat call.
C15_NoRetry ==
    [][/\ \A c \in Collaborators : calls'[c] <= 1
       /\ pc' = "chat_stream" => calls' = [NoCalls EXCEPT !.chat = 1]
       /\ \A c \in Collaborators :
             calls'[c] > calls[c] =>
                \/ pc = "idle"
                \/ c = "audio" /\ pc = "ydl_subtitles" /\ ~Truthy(subtitle_text')
                \/ c = "whisper" /\ pc = "ydl_audio" /\ audio_out' = NoOutcome
                \/ c = "chat" /\ pc = "extracted" /\ Truthy(extracted)]_vars

\* an Analyze has called each of the four collaborators once
C15_Witness ==
    /\ pc = "chat_init"
    /\ \A c \in Collaborators : calls[c] = 1

\* C16: every temporary directory created during extraction, for the
\* caption fetch and for the audio download, has been deleted by the time
\* extract_youtube_content returns, on every exit path.
C16_TempDirsDeleted ==
    /\ pc \notin {"ydl_subtitles", "ydl_audio", "whisper"} => temp_dirs = {}
    /\ pc = "ydl_subtitles" => temp_dirs = {"subtitle_dir"}
    /\ pc \in {"ydl_audio", "whisper"} => temp_dirs = {"audio_dir"}

\* extraction has returned after whisper raised; both directories had been
\* created
C16_Witness ==
    /\ pc = "extracted"
    /\ caption_out.kind = "nofile"
    /\ audio_out.kind = "raise"
    /\ calls.whisper = 1
    /\ temp_dirs = {}

\* C19: an Analyze whose extraction fails leaves the ready flag, the
\* extracted content, the transcript and chat_history as they were: no step
\* of the extraction changes them, nor does the handler when it receives
\* None.
C19_FailedExtractionKeepsSession ==
    [][(\/ pc = "idle" /\ pc' = "ydl_subtitles"
        \/ pc \in {"ydl_subtitles", "ydl_audio", "whisper"}
        \/ pc = "extracted" /\ ~Truthy(extracted))
          => session' = session]_vars

\* a READY session with an answered question has seen an extraction fail
C19_Witness ==
    /\ pc = "idle"
    /\ outcome = "extract_failed"
    /\ IsReady
    /\ chat_history # <<>>

\* C20: whenever the transcript is not empty, its second message embeds the
\* session's current youtube_content, the content that is stored and
\* previewed.
C20_SeedMatchesContent ==
    messages # <<>> =>
        /\ Len(messages) >= 2
        /\ Truthy(youtube_content)
        /\ messages[2] = ContentMsg(youtube_content)

\* a READY session was analyzed again and the prime failed: content and
\* seed were replaced together
C20_Witness ==
    /\ pc = "idle"
    /\ outcome = "init_failed"
    /\ content_loaded
    /\ Len(messages) = 2
    /\ messages[2] = ContentMsg(youtube_content)

\* ------------------------------------------------------------------------
\* The caption step on its own, over every small caption file: the fetch
\* writes a file put together from at most MaxPieces pieces and
\* get_subtitles cleans it.
Pieces ==
    { <<Hdr>>, CueRange, <<NL>>, <<SP>>, <<"a">>,
      <<LBr>>, <<RBr>>, <<Note>>, <<Lt>>, <<Gt>> }

RECURSIVE PieceTexts(_)
PieceTexts(n) ==
    IF n = 0 THEN {<<>>}
    ELSE LET shorter == PieceTexts(n - 1)
         IN  shorter \cup {t \o p : t \in shorter, p \in Pieces}

CleanerOutcomes == {[kind |-> "file", text |-> t] : t \in PieceTexts(MaxPieces)}

CleanerNext ==
    \/ \E u \in Urls : AnalyzeVideo(u)
    \/ \E out \in CleanerOutcomes : SubtitleFetch(out)

CleanerSpec == Init /\ [][CleanerNext]_vars

\* get_subtitles has cleaned a caption file
Cleaned == caption_out.kind = "file" /\ pc # "ydl_subtitles"

HasCueRange(t) == \E i \in 1..(Len(t) - 6) : SubSeq(t, i, i + 6) = CueRange

\* C17: the cleaned text of any caption file contains no timestamp range,
\* no newline, no run of two or more whitespace characters and no leading
\* or trailing whitespace.
C17_CleanedIsOneLine ==
    Cleaned =>
        /\ ~HasCueRange(subtitle_text)
        /\ \A i \in 1..Len(subtitle_text) : subtitle_text[i] # NL
        /\ \A i \in 1..(Len(subtitle_text) - 1) :
              ~(IsSpace(subtitle_text[i]) /\ IsSpace(subtitle_text[i+1]))
        /\ subtitle_text # <<>> =>
              /\ ~IsSpace(subtitle_text[1])
              /\ ~IsSpace(subtitle_text[Len(subtitle_text)])

\* C18: the cleaned text of any caption file holds no bracketed annotation
\* and no segment between two musical-note markers: every one in the file,
\* also one whose delimiters are on different lines, was removed with its
\* delimiters.
C18_AnnotationsRemoved ==
    Cleaned =>
        /\ ~\E i, j \in 1..Len(subtitle_text) :
              i < j /\ subtitle_text[i] = LBr /\ subtitle_text[j] = RBr
        /\ ~\E i, j \in 1..Len(subtitle_text) :
              i < j /\ subtitle_text[i] = Note /\ subtitle_text[j] = Note
====
